---- MODULE Spec2Model ----
(***************************************************************************)
(* A model of the blog_sync Obsidian plugin: the Git-hosting publish /     *)
(* unpublish protocol (GitHubPublisher), the local mirror                  *)
(* (LocalServerPublisher), the coordinator (IntegratedPublisher), the      *)
(* webhook client and the Publication Center's ledger handling.            *)
(*                                                                         *)
(* Strings of the program are sequences of one-character strings, so that  *)
(* path joining, link extraction and link rewriting are computed the way   *)
(* the code computes them.                                                 *)
(***************************************************************************)
EXTENDS Integers, Sequences, FiniteSets, TLC

VARIABLES
    settings,        \* BlogSyncSettings (the fields the publishers read)
    vault,           \* document store: path -> text
    publishedNotes,  \* the Publication Ledger: path -> [hash, timestamp]
    branch,          \* remote branch reference: NoRef or the commit it points to
    mirror,          \* local mirror: set of files copied to the mount
    ui,              \* the UI handler in flight (Publication Center / command)
    co,              \* IntegratedPublisher call in flight and its PublishResult
    gh,              \* GitHubPublisher call in flight and its locals
    ls,              \* LocalServerPublisher call in flight and its locals
    reqs,            \* remote API requests issued by the GitHubPublisher call in flight
    issued,          \* kinds of remote API requests issued since the UI handler started
    posts,           \* webhook POSTs issued by the coordinator call
    faults,          \* environment faults injected so far
    second,          \* a publish-current-file command started while a publish is in flight
    external         \* the commit another client of the repository pushed, if any

vars == <<settings, vault, publishedNotes, branch, mirror, ui, co, gh, ls, reqs, issued, posts,
          faults, second, external>>

-----------------------------------------------------------------------------
(* Bounds of the model                                                     *)

MaxBatch == 2    \* longest selection handed to a publish / unpublish
MaxFaults == 2   \* environment faults (API errors, read or copy failures) per behaviour

-----------------------------------------------------------------------------
(* Strings                                                                 *)

Last(s) == s[Len(s)]
Front(s) == SubSeq(s, 1, Len(s) - 1)

RECURSIVE Join(_, _)
Join(parts, sep) ==
    IF parts = <<>> THEN <<>>
    ELSE IF Len(parts) = 1 THEN parts[1]
    ELSE parts[1] \o sep \o Join(Tail(parts), sep)

\* String.prototype.split(sep) for a one-character separator
RECURSIVE Split(_, _)
Split(s, c) ==
    IF \A k \in 1..Len(s) : s[k] # c THEN <<s>>
    ELSE LET k == CHOOSE k \in 1..Len(s) : s[k] = c /\ \A m \in 1..(k-1) : s[m] # c
         IN <<SubSeq(s, 1, k - 1)>> \o Split(SubSeq(s, k + 1, Len(s)), c)

RECURSIVE MapSeq(_, _)
MapSeq(Op(_), s) == IF s = <<>> THEN <<>> ELSE <<Op(Head(s))>> \o MapSeq(Op, Tail(s))

RECURSIVE Flatten(_)
Flatten(ss) == IF ss = <<>> THEN <<>> ELSE Head(ss) \o Flatten(Tail(ss))

StartsWith(s, p) == Len(s) >= Len(p) /\ SubSeq(s, 1, Len(p)) = p

\* first position >= i holding character c, 0 when there is none
RECURSIVE IndexFrom(_, _, _)
IndexFrom(s, c, i) ==
    IF i > Len(s) THEN 0 ELSE IF s[i] = c THEN i ELSE IndexFrom(s, c, i + 1)

IsSpace(c) == c = " "

RECURSIVE trimStart(_)
trimStart(s) == IF s # <<>> /\ IsSpace(Head(s)) THEN trimStart(Tail(s)) ELSE s

RECURSIVE trimEnd(_)
trimEnd(s) == IF s # <<>> /\ IsSpace(Last(s)) THEN trimEnd(Front(s)) ELSE s

trim(s) == trimEnd(trimStart(s))

\* encodeURIComponent on one character: unreserved characters stay, the
\* others become their percent-escaped UTF-8 bytes
encodeChar(c) ==
    CASE c = " " -> <<"%", "2", "0">>
      [] c = "/" -> <<"%", "2", "F">>
      [] c = "[" -> <<"%", "5", "B">>
      [] c = "]" -> <<"%", "5", "D">>
      [] c = "|" -> <<"%", "7", "C">>
      [] c = "%" -> <<"%", "2", "5">>
      [] c = ":" -> <<"%", "3", "A">>
      [] OTHER   -> <<c>>

encodeURIComponent(s) == Flatten(MapSeq(encodeChar, s))

-----------------------------------------------------------------------------
(* GitHubPublisher: path resolution                                        *)

normalizePath(path) ==
    LET n0 == trim(path)
        n1 == IF n0 # <<>> /\ Head(n0) = "/" THEN Tail(n0) ELSE n0
        n2 == IF n1 # <<>> /\ Last(n1) = "/" THEN Front(n1) ELSE n1
    IN n2

getFullPath(parts) ==
    LET keep(p) == p # <<>> /\ trim(p) # <<>>
        filtered == SelectSeq(parts, keep)
    IN Join(MapSeq(normalizePath, filtered), <<"/">>)

getFilePath(filePath) ==
    getFullPath(<<settings.publicBasePath, settings.blogContentPath, filePath>>)

getAssetPath(assetPath) ==
    getFullPath(<<settings.publicBasePath, settings.blogAssetsPath, assetPath>>)

-----------------------------------------------------------------------------
(* GitHubPublisher: image links                                            *)

\* /!\[\[([^\]]+)\]\]/ anchored at i: the index of the match's last
\* character, 0 when it does not match there
wikiMatchAt(s, i) ==
    IF i + 2 <= Len(s) /\ s[i] = "!" /\ s[i+1] = "[" /\ s[i+2] = "["
    THEN LET j == IndexFrom(s, "]", i + 3)
         IN IF j > i + 3 /\ j + 1 <= Len(s) /\ s[j+1] = "]" THEN j + 1 ELSE 0
    ELSE 0

\* /!\[([^\]]*)\]\(([^\)]+)\)/ anchored at i: <<end of alt, end of match>>,
\* <<0, 0>> when it does not match there
markdownMatchAt(s, i) ==
    IF i + 1 <= Len(s) /\ s[i] = "!" /\ s[i+1] = "["
    THEN LET j == IndexFrom(s, "]", i + 2)
         IN IF j # 0 /\ j + 1 <= Len(s) /\ s[j+1] = "("
            THEN LET k == IndexFrom(s, ")", j + 2)
                 IN IF k > j + 2 THEN <<j, k>> ELSE <<0, 0>>
            ELSE <<0, 0>>
    ELSE <<0, 0>>

RECURSIVE wikiLinks(_, _)
wikiLinks(s, i) ==
    IF i > Len(s) THEN <<>>
    ELSE LET e == wikiMatchAt(s, i)
         IN IF e # 0 THEN <<SubSeq(s, i + 3, e - 2)>> \o wikiLinks(s, e + 1)
            ELSE wikiLinks(s, i + 1)

RECURSIVE markdownLinks(_, _)
markdownLinks(s, i) ==
    IF i > Len(s) THEN <<>>
    ELSE LET m == markdownMatchAt(s, i)
         IN IF m[2] # 0 THEN <<SubSeq(s, m[1] + 2, m[2] - 1)>> \o markdownLinks(s, m[2] + 1)
            ELSE markdownLinks(s, i + 1)

extractImageLinks(content) == wikiLinks(content, 1) \o markdownLinks(content, 1)

encodePath(imagePath) ==
    Join(MapSeq(encodeURIComponent, Split(imagePath, "/")), <<"/">>)

\* the URL transformImageLinks writes for a link target
assetUrl(fullAssetsPath, imagePath) ==
    <<"/">> \o fullAssetsPath \o <<"/">> \o encodePath(imagePath)

RECURSIVE replaceWiki(_, _, _)
replaceWiki(s, i, fullAssetsPath) ==
    IF i > Len(s) THEN <<>>
    ELSE LET e == wikiMatchAt(s, i)
         IN IF e # 0
            THEN LET imagePath == SubSeq(s, i + 3, e - 2)
                 IN <<"!", "[">> \o imagePath \o <<"]", "(">>
                    \o assetUrl(fullAssetsPath, imagePath) \o <<")">>
                    \o replaceWiki(s, e + 1, fullAssetsPath)
            ELSE <<s[i]>> \o replaceWiki(s, i + 1, fullAssetsPath)

RECURSIVE replaceMarkdown(_, _, _)
replaceMarkdown(s, i, fullAssetsPath) ==
    IF i > Len(s) THEN <<>>
    ELSE LET m == markdownMatchAt(s, i)
         IN IF m[2] # 0
            THEN LET alt == SubSeq(s, i + 2, m[1] - 1)
                     imagePath == SubSeq(s, m[1] + 2, m[2] - 1)
                 IN (IF StartsWith(imagePath, <<"h", "t", "t", "p">>) \/ StartsWith(imagePath, <<"/">>)
                     THEN SubSeq(s, i, m[2])
                     ELSE <<"!", "[">> \o alt \o <<"]", "(">>
                          \o assetUrl(fullAssetsPath, imagePath) \o <<")">>)
                    \o replaceMarkdown(s, m[2] + 1, fullAssetsPath)
            ELSE <<s[i]>> \o replaceMarkdown(s, i + 1, fullAssetsPath)

transformImageLinks(content) ==
    LET fullAssetsPath == getFullPath(<<settings.publicBasePath, settings.blogAssetsPath>>)
    IN replaceMarkdown(replaceWiki(content, 1, fullAssetsPath), 1, fullAssetsPath)

-----------------------------------------------------------------------------
(* Fingerprint of the ledger (PublicationCenterModal.getFileHash)          *)

charCodeAt(c) ==
    CASE c = " " -> 32  [] c = "!" -> 33  [] c = "(" -> 40  [] c = ")" -> 41
      [] c = "/" -> 47  [] c = "[" -> 91  [] c = "]" -> 93  [] c = "a" -> 97
      [] c = "b" -> 98  [] c = "c" -> 99  [] c = "f" -> 102 [] c = "p" -> 112
      [] c = "q" -> 113 [] c = "x" -> 120 [] c = "y" -> 121
      [] c = "h" -> 104 [] c = "t" -> 116 [] c = ":" -> 58

\* hash = ((hash << 5) - hash) + char; hash = hash & hash: 31 * hash + char
\* wrapped to 32 bits. The 32 bits are kept as two 16-bit halves <<hi, lo>>
\* so that no intermediate value leaves the integers TLC computes with.
hashStep(h, char) ==
    LET lo == 31 * h[2] + char
        hi == 31 * h[1] + (lo \div 65536)
    IN <<hi % 65536, lo % 65536>>

RECURSIVE hashFrom(_, _, _)
hashFrom(content, i, hash) ==
    IF i > Len(content) THEN hash
    ELSE hashFrom(content, i + 1, hashStep(hash, charCodeAt(content[i])))

\* the signed 32-bit integer the two halves stand for
toInt32(h) == IF h[1] >= 32768 THEN (h[1] - 65536) * 65536 + h[2] ELSE h[1] * 65536 + h[2]

Digits36 ==
    <<"0", "1", "2", "3", "4", "5", "6", "7", "8", "9", "a", "b", "c", "d", "e", "f", "g", "h",
      "i", "j", "k", "l", "m", "n", "o", "p", "q", "r", "s", "t", "u", "v", "w", "x", "y", "z">>

RECURSIVE natToString36(_)
natToString36(n) ==
    IF n < 36 THEN <<Digits36[n + 1]>>
    ELSE natToString36(n \div 36) \o <<Digits36[(n % 36) + 1]>>

\* the digits of -n for n < 0, computed without negating n
RECURSIVE negToString36(_)
negToString36(n) ==
    LET r == (36 - (n % 36)) % 36
        q == (n + r) \div 36
    IN IF q = 0 THEN <<Digits36[r + 1]>>
       ELSE negToString36(q) \o <<Digits36[r + 1]>>

\* Number.prototype.toString(36)
toString36(n) == IF n < 0 THEN <<"-">> \o negToString36(n) ELSE natToString36(n)

hashOf(content) == toString36(toInt32(hashFrom(content, 1, <<0, 0>>)))

getFileHash(path) == hashOf(vault[path])

-----------------------------------------------------------------------------
(* The document store and the remote repository                            *)

\* an optional value is a sequence of at most one element
None == <<>>
Some(v) == <<v>>
NoOp == "none"
NoRef == None      \* the branch reference does not exist

DocA == <<"a">>
DocB == <<"b">>
DocC == <<"c">>
Docs == {DocA, DocB, DocC}

ImageP == <<"f", "/", "p">>          \* an attachment of the vault, in folder f
Attachments == {ImageP}

TextA == <<"!", "[", "[", "p", "]", "]">>                         \* ![[p]]
TextB == <<"!", "[", "x", "]", "(", "f", "/", "p", ")">>          \* ![x](f/p)
TextC == <<"y", "!", "[", "[", "q", "]", "]">>                    \* y![[q]], q is in no folder

VaultInit == (DocA :> TextA) @@ (DocB :> TextB) @@ (DocC :> TextC)

\* app.metadataCache.getFirstLinkpathDest: the file of the vault a link
\* names (an attachment, or a note that is embedded), by its full path or,
\* for a bare file name, by its name in any folder
getFirstLinkpathDest(linkpath, sourcePath) ==
    IF linkpath \in Attachments \cup Docs THEN Some(linkpath)
    ELSE IF \E f \in Attachments : Last(Split(f, "/")) = linkpath
         THEN Some(CHOOSE f \in Attachments : Last(Split(f, "/")) = linkpath)
         ELSE None

readBinary(path) == <<"bytes of">> \o path

\* a blob's hash stands for its content (content addressed)
blobSha(content) == [kind |-> "blob", data |-> content]

FileBlob(path, sha) == [path |-> path, mode |-> "100644", type |-> "blob", sha |-> sha]

\* git.createTree: the entries of the base tree, each request entry
\* replacing what the tree held at its path
RECURSIVE createTree(_, _)
createTree(base, entries) ==
    IF entries = <<>> THEN base
    ELSE createTree({e \in base : e.path # Head(entries).path} \cup {Head(entries)},
                    Tail(entries))

Commit(tree, parents, message) == [tree |-> tree, parents |-> parents, message |-> message]

Prefixes(path) == {SubSeq(path, 1, k - 1) : k \in {k \in 1..Len(path) : path[k] = "/"}}

\* git.getTree with recursive = 1: the entries of the tree and one entry,
\* of type tree, for each directory they lie in
getTree(tree) ==
    tree \cup {[path |-> d, mode |-> "040000", type |-> "tree", sha |-> [kind |-> "tree", data |-> d]] :
                  d \in UNION {Prefixes(e.path) : e \in tree}}

pSrcSite == <<"s", "r", "c", "/", "s", "i", "t", "e">>
pNotes == <<"n", "o", "t", "e", "s">>
pImgUser == <<"i", "m", "g", "/", "u", "s", "e", "r">>

\* what the branch may hold before the plugin first touches it: a note
\* published earlier, an executable script and a submodule
OldTree ==
    { [path |-> pSrcSite \o <<"/">> \o pNotes \o <<"/">> \o DocA, mode |-> "100644",
       type |-> "blob", sha |-> blobSha(<<"x">>)],
      [path |-> <<"b", "i", "n", "/", "r", "u", "n">>, mode |-> "100755",
       type |-> "blob", sha |-> blobSha(<<"y">>)],
      [path |-> <<"q">>, mode |-> "160000", type |-> "commit", sha |-> [kind |-> "commit", data |-> <<"s", "u", "b">>]] }

Message(kind, notes, images) == [kind |-> kind, notes |-> notes, images |-> images]

OldCommit == Commit(OldTree, <<>>, Message("old", 0, 0))

-----------------------------------------------------------------------------
(* Initial state: the plugin has loaded its settings; nothing is in flight *)

PublishTargets == {"github", "server", "both"}

SettingsSet ==
    [ publishTarget     : PublishTargets,
      hasGitHub         : BOOLEAN,      \* githubToken, githubUsername and githubRepo are set
      enableLocalServer : BOOLEAN,
      hasLocalPath      : {TRUE},       \* localServerPath is set (its default is)
      enableWebhook     : BOOLEAN,
      hasWebhookUrl     : {TRUE},       \* webhookUrl is set (its default is)
      hasWebhookToken   : BOOLEAN,
      publicBasePath    : {pSrcSite},
      blogContentPath   : {pNotes},
      blogAssetsPath    : {pImgUser} ]

DocD == <<"d">>      \* published earlier, no longer in the vault

\* the ledger as loaded: empty; holding the record of an earlier publish of
\* DocA; or holding that record, the record of an earlier text of DocB and
\* the record of DocD
LedgerInits ==
    { <<>>,
      (DocA :> [hash |-> hashOf(TextA), timestamp |-> 0]),
      (DocA :> [hash |-> hashOf(TextA), timestamp |-> 0])
         @@ (DocB :> [hash |-> hashOf(<<"x">>), timestamp |-> 0])
         @@ (DocD :> [hash |-> hashOf(<<"y">>), timestamp |-> 0]) }

\* before: the ledger as it was when the handler started
\* notes: what analyzeNotes listed when the Publication Center opened
UiIdle == [pc |-> "idle", op |-> NoOp, files |-> <<>>, githubSuccess |-> FALSE,
           localServerSuccess |-> FALSE, before |-> <<>>, notes |-> <<>>]

EmptyResult ==
    [success |-> FALSE, errors |-> <<>>, github |-> None, localServer |-> None,
     webhook |-> None]

\* legs: the legs the call has entered so far, in order
CoIdle == [pc |-> "idle", op |-> NoOp, files |-> <<>>, result |-> EmptyResult, legs |-> <<>>]

GhIdle ==
    [pc |-> "idle", op |-> NoOp, files |-> <<>>, i |-> 0, links |-> <<>>,
     latestCommitSha |-> None, baseTreeSha |-> None, noteBlobs |-> <<>>,
     imageBlobs |-> <<>>, newTreeItems |-> <<>>, newTree |-> None, newCommit |-> None,
     bootstrap |-> FALSE, result |-> FALSE, before |-> None]

LsIdle ==
    [pc |-> "idle", op |-> NoOp, files |-> <<>>, i |-> 0, filesPublished |-> 0,
     errors |-> <<>>, success |-> FALSE]

\* the second invocation, followed through the requests that touch the branch
SecondIdle == [pc |-> "idle", head |-> None]

Init ==
    /\ settings \in SettingsSet
    /\ vault = VaultInit
    /\ publishedNotes \in LedgerInits
    /\ branch \in {NoRef, Some(OldCommit)}
    /\ mirror = {}
    /\ ui = UiIdle
    /\ co = CoIdle
    /\ gh = GhIdle
    /\ ls = LsIdle
    /\ reqs = <<>>
    /\ issued = {}
    /\ posts = 0
    /\ faults = 0
    /\ second = SecondIdle
    /\ external = None

\* the selections a handler may get: the selected paths in selection order
Selections == {s \in UNION {[1..n -> Docs] : n \in 1..MaxBatch} :
                  \A j, k \in 1..Len(s) : j # k => s[j] # s[k]}

CanFault == faults < MaxFaults

Req(op, ok, arg) == [op |-> op, ok |-> ok, arg |-> arg]

-----------------------------------------------------------------------------
(* GitHubPublisher: one action per awaited request                         *)

\* order in which an array built from a set is walked
RECURSIVE SetToSeq(_)
SetToSeq(S) ==
    IF S = {} THEN <<>>
    ELSE LET x == CHOOSE x \in S : TRUE IN <<x>> \o SetToSeq(S \ {x})

\* no merging of blobs at one path: what C17_AttachmentDeduplication must
\* tell from uniqueByPath
everyBlob(blobs) == blobs

\* Array.from(new Map(blobs.map(b => [b.path, b])).values()): one blob per
\* path, at the place of the path's first blob, holding its last blob
uniqueByPath(blobs) ==
    LET first(k) == \A j \in 1..(k - 1) : blobs[j].path # blobs[k].path
        lastOf(k) == CHOOSE j \in 1..Len(blobs) :
                        /\ blobs[j].path = blobs[k].path
                        /\ \A m \in (j + 1)..Len(blobs) : blobs[m].path # blobs[k].path
        keep == SelectSeq([k \in 1..Len(blobs) |-> k], first)
    IN [n \in 1..Len(keep) |-> blobs[lastOf(keep[n])]]

GhCall(op, files) ==
    [GhIdle EXCEPT !.pc = "getRef", !.op = op, !.files = files, !.before = branch]

\* a catch that would report success: what C2_BatchAtomicity must tell from GhFail
GhFailReportsSuccess == [gh EXCEPT !.pc = "ret", !.result = TRUE]

\* the catch of each method: log the error and return false
GhFail == [gh EXCEPT !.pc = "ret", !.result = FALSE]

GhPublishOps == {"publishFile", "publishFiles"}

\* the catch around the reference and commit lookups: status 404 hands the
\* files to createInitialCommit, any other error is thrown on
GhLookupFailed(status) ==
    IF status = "404" /\ gh.op \in GhPublishOps
    THEN [gh EXCEPT !.pc = "noteBlob", !.i = 1, !.bootstrap = TRUE]
    ELSE GhFail

GhOthers == <<settings, vault, publishedNotes, mirror, ui, co, ls, posts, second, external>>

\* git.getRef; a publisher built without the token, the user name or the
\* repository (the unpublish handler builds one unconditionally) is refused
GhGetRef ==
    /\ gh.pc = "getRef"
    /\ \E fault \in {"none"} \cup (IF CanFault THEN {"error"} ELSE {}) :
         LET status == IF fault # "none" THEN fault
                       ELSE IF ~settings.hasGitHub THEN "error"
                       ELSE IF branch = NoRef THEN "404" ELSE "ok"
         IN /\ reqs' = Append(reqs, Req("getRef", status = "ok", [status |-> status]))
            /\ issued' = issued \cup {"getRef"}
            /\ faults' = faults + (IF fault = "none" THEN 0 ELSE 1)
            /\ gh' = IF status = "ok"
                     THEN [gh EXCEPT !.pc = "getCommit", !.latestCommitSha = branch]
                     ELSE GhLookupFailed(status)
    /\ UNCHANGED <<branch, GhOthers>>

GhGetCommit ==
    /\ gh.pc = "getCommit"
    /\ \E fault \in {"none"} \cup (IF CanFault THEN {"404", "error"} ELSE {}) :
         LET status == IF fault # "none" THEN fault ELSE "ok"
         IN /\ reqs' = Append(reqs, Req("getCommit", status = "ok", gh.latestCommitSha))
            /\ issued' = issued \cup {"getCommit"}
            /\ faults' = faults + (IF fault = "none" THEN 0 ELSE 1)
            /\ gh' = IF status = "ok"
                     THEN [gh EXCEPT !.pc = IF gh.op = "deleteFiles" THEN "getTree"
                                            ELSE "noteBlob",
                                     !.i = 1,
                                     !.baseTreeSha = Some(gh.latestCommitSha[1].tree)]
                     ELSE GhLookupFailed(status)
    /\ UNCHANGED <<branch, GhOthers>>

\* a loop that would go to the tree after its first file: what
\* C26_StrictSequencing must tell from GhAfterFile
GhAfterFirstFile(g) == [g EXCEPT !.pc = "createTree", !.links = <<>>]

\* after the images of file i: the next file, or the tree
GhAfterFile(g) ==
    IF g.i < Len(g.files) THEN [g EXCEPT !.pc = "noteBlob", !.i = g.i + 1, !.links = <<>>]
    ELSE [g EXCEPT !.pc = "createTree", !.links = <<>>]

\* the note of file i: read, rewrite, upload; then processImages reads the
\* note again and extracts its links
GhNoteBlob ==
    /\ gh.pc = "noteBlob"
    /\ LET file == gh.files[gh.i]
           content == vault[file]
           transformedContent == transformImageLinks(content)
           path == getFilePath(file)
           arg == [kind |-> "note", path |-> path, content |-> transformedContent]
           imageLinks == extractImageLinks(content)
           withNote == [gh EXCEPT !.noteBlobs = Append(gh.noteBlobs,
                                                     FileBlob(path, blobSha(transformedContent)))]
       IN \E fault \in {"none"} \cup (IF CanFault THEN {"read", "createBlob", "readAgain"} ELSE {}) :
            /\ faults' = faults + (IF fault = "none" THEN 0 ELSE 1)
            /\ reqs' = IF fault = "read" THEN reqs
                       ELSE Append(reqs, Req("createBlob", fault # "createBlob", arg))
            /\ issued' = IF fault = "read" THEN issued ELSE issued \cup {"createBlob"}
            /\ gh' = IF fault = "none"
                     THEN IF imageLinks = <<>> THEN GhAfterFile(withNote)
                          ELSE [withNote EXCEPT !.pc = "image", !.links = imageLinks]
                     ELSE GhFail
    /\ UNCHANGED <<branch, GhOthers>>

\* a processImages without its catch, where a failed read or upload of an
\* attachment fails the publish: what C24_AttachmentErrorsNonFatal must tell
\* from GhImage
GhImageAborts ==
    /\ gh.pc = "image"
    /\ LET imageName == Head(gh.links)
           imageFile == getFirstLinkpathDest(imageName, gh.files[gh.i])
           rest == [gh EXCEPT !.links = Tail(gh.links)]
           done(g) == IF g.links = <<>> THEN GhAfterFile(g) ELSE g
       IN IF imageFile = None
          THEN /\ gh' = done(rest)
               /\ UNCHANGED <<reqs, issued, faults>>
          ELSE LET path == getAssetPath(imageFile[1])
                   data == readBinary(imageFile[1])
                   arg == [kind |-> "image", path |-> path, content |-> data]
               IN \E fault \in {"none"} \cup (IF CanFault THEN {"read", "createBlob"} ELSE {}) :
                    /\ faults' = faults + (IF fault = "none" THEN 0 ELSE 1)
                    /\ reqs' = IF fault = "read" THEN reqs
                               ELSE Append(reqs, Req("createBlob", fault = "none", arg))
                    /\ issued' = IF fault = "read" THEN issued ELSE issued \cup {"createBlob"}
                    /\ gh' = IF fault = "none"
                             THEN done([rest EXCEPT !.imageBlobs =
                                           Append(gh.imageBlobs, FileBlob(path, blobSha(data)))])
                             ELSE GhFail
    /\ UNCHANGED <<branch, GhOthers>>

\* processImages, one link: resolve it, read the attachment, upload it; a
\* link that resolves to nothing and any error skip the link
GhImage ==
    /\ gh.pc = "image"
    /\ LET imageName == Head(gh.links)
           imageFile == getFirstLinkpathDest(imageName, gh.files[gh.i])
           rest == [gh EXCEPT !.links = Tail(gh.links)]
           done(g) == IF g.links = <<>> THEN GhAfterFile(g) ELSE g
       IN IF imageFile = None
          THEN /\ gh' = done(rest)
               /\ UNCHANGED <<reqs, issued, faults>>
          ELSE LET path == getAssetPath(imageFile[1])
                   data == readBinary(imageFile[1])
                   arg == [kind |-> "image", path |-> path, content |-> data]
               IN \E fault \in {"none"} \cup (IF CanFault THEN {"read", "createBlob"} ELSE {}) :
                    /\ faults' = faults + (IF fault = "none" THEN 0 ELSE 1)
                    /\ reqs' = IF fault = "read" THEN reqs
                               ELSE Append(reqs, Req("createBlob", fault = "none", arg))
                    /\ issued' = IF fault = "read" THEN issued ELSE issued \cup {"createBlob"}
                    /\ gh' = IF fault = "none"
                             THEN done([rest EXCEPT !.imageBlobs =
                                           Append(gh.imageBlobs, FileBlob(path, blobSha(data)))])
                             ELSE done(rest)
    /\ UNCHANGED <<branch, GhOthers>>

\* deleteFiles: list the whole tree and keep the blobs that are not deleted
GhGetTree ==
    /\ gh.pc = "getTree"
    /\ LET pathsToDelete == {getFilePath(gh.files[k]) : k \in 1..Len(gh.files)}
           currentTree == getTree(gh.baseTreeSha[1])
           currentBlobs == {item \in currentTree : item.type = "blob"}
           newTreeItems == {FileBlob(item.path, item.sha) :
                               item \in {b \in currentBlobs : b.path \notin pathsToDelete}}
       IN \E fault \in {"none"} \cup (IF CanFault THEN {"error"} ELSE {}) :
            /\ faults' = faults + (IF fault = "none" THEN 0 ELSE 1)
            /\ reqs' = Append(reqs, Req("getTree", fault = "none", gh.baseTreeSha))
            /\ issued' = issued \cup {"getTree"}
            /\ gh' = IF fault = "none"
                     THEN [gh EXCEPT !.pc = "createTree", !.newTreeItems = SetToSeq(newTreeItems)]
                     ELSE GhFail
    /\ UNCHANGED <<branch, GhOthers>>

\* the entries and the base tree of the tree request, per method
GhAllBlobs ==
    IF gh.op = "deleteFiles" THEN gh.newTreeItems
    ELSE IF gh.op = "publishFile" /\ ~gh.bootstrap THEN gh.noteBlobs \o gh.imageBlobs
    ELSE gh.noteBlobs \o uniqueByPath(gh.imageBlobs)

GhBaseTree == IF gh.op = "deleteFiles" \/ gh.bootstrap THEN None ELSE gh.baseTreeSha

GhCreateTree ==
    /\ gh.pc = "createTree"
    /\ LET base == GhBaseTree
           arg == [base_tree |-> base, tree |-> GhAllBlobs]
           newTree == createTree(IF base = None THEN {} ELSE base[1], GhAllBlobs)
       IN \E fault \in {"none"} \cup (IF CanFault THEN {"error"} ELSE {}) :
            /\ faults' = faults + (IF fault = "none" THEN 0 ELSE 1)
            /\ reqs' = Append(reqs, Req("createTree", fault = "none", arg))
            /\ issued' = issued \cup {"createTree"}
            /\ gh' = IF fault = "none"
                     THEN [gh EXCEPT !.pc = "createCommit", !.newTree = Some(newTree)]
                     ELSE GhFail
    /\ UNCHANGED <<branch, GhOthers>>

\* an initial commit that would name a parent: what C5_Bootstrap must tell from GhParents
GhParentsOfOldCommit == Some(OldCommit)

GhParents == IF gh.bootstrap THEN <<>> ELSE gh.latestCommitSha

GhMessage ==
    LET images == IF gh.op = "deleteFiles" THEN 0
                  ELSE Len(GhAllBlobs) - Len(gh.noteBlobs)
    IN Message(IF gh.op = "deleteFiles" THEN "Unpublish"
               ELSE IF gh.bootstrap THEN "Initial commit"
               ELSE IF gh.op = "publishFile" THEN "Publish" ELSE "Published",
               Len(gh.files), images)

GhCreateCommit ==
    /\ gh.pc = "createCommit"
    /\ LET newCommit == Commit(gh.newTree[1], GhParents, GhMessage)
           arg == [tree |-> gh.newTree, parents |-> GhParents]
       IN \E fault \in {"none"} \cup (IF CanFault THEN {"error"} ELSE {}) :
            /\ faults' = faults + (IF fault = "none" THEN 0 ELSE 1)
            /\ reqs' = Append(reqs, Req("createCommit", fault = "none", arg))
            /\ issued' = issued \cup {"createCommit"}
            /\ gh' = IF fault = "none"
                     THEN [gh EXCEPT !.pc = IF gh.bootstrap THEN "createRef" ELSE "updateRef",
                                     !.newCommit = Some(newCommit)]
                     ELSE GhFail
    /\ UNCHANGED <<branch, GhOthers>>

\* git.updateRef with force: moves the reference wherever it points; a
\* reference that does not exist cannot be updated
GhForceUpdate(pc) ==
    /\ gh.pc = pc
    /\ \E fault \in {"none"} \cup (IF CanFault THEN {"error"} ELSE {}) :
         LET ok == fault = "none" /\ branch # NoRef
         IN /\ faults' = faults + (IF fault = "none" THEN 0 ELSE 1)
            /\ reqs' = Append(reqs, Req("updateRef", ok, [sha |-> gh.newCommit, force |-> TRUE]))
            /\ issued' = issued \cup {"updateRef"}
            /\ branch' = IF ok THEN gh.newCommit ELSE branch
            /\ gh' = IF ok THEN [gh EXCEPT !.pc = "ret", !.result = TRUE] ELSE GhFail
    /\ UNCHANGED GhOthers

GhUpdateRef == GhForceUpdate("updateRef")

\* a createInitialCommit that would retry every failed creation as a forced
\* update: what C25_RefCreateFallback must tell from GhCreateRef
GhCreateRefRetriesAll ==
    /\ gh.pc = "createRef"
    /\ \E fault \in {"none"} \cup (IF CanFault THEN {"422", "error"} ELSE {}) :
         LET status == IF fault # "none" THEN fault
                       ELSE IF branch # NoRef THEN "422" ELSE "ok"
         IN /\ faults' = faults + (IF fault = "none" THEN 0 ELSE 1)
            /\ reqs' = Append(reqs, Req("createRef", status = "ok",
                                        [sha |-> gh.newCommit, force |-> FALSE, status |-> status]))
            /\ issued' = issued \cup {"createRef"}
            /\ branch' = IF status = "ok" THEN gh.newCommit ELSE branch
            /\ gh' = IF status = "ok" THEN [gh EXCEPT !.pc = "ret", !.result = TRUE]
                     ELSE [gh EXCEPT !.pc = "createRefExists"]
    /\ UNCHANGED GhOthers

\* createInitialCommit: create the reference; status 422 turns into a
\* forced update, any other error fails the publish
GhCreateRef ==
    /\ gh.pc = "createRef"
    /\ \E fault \in {"none"} \cup (IF CanFault THEN {"422", "error"} ELSE {}) :
         LET status == IF fault # "none" THEN fault
                       ELSE IF branch # NoRef THEN "422" ELSE "ok"
         IN /\ faults' = faults + (IF fault = "none" THEN 0 ELSE 1)
            /\ reqs' = Append(reqs, Req("createRef", status = "ok",
                                        [sha |-> gh.newCommit, force |-> FALSE, status |-> status]))
            /\ issued' = issued \cup {"createRef"}
            /\ branch' = IF status = "ok" THEN gh.newCommit ELSE branch
            /\ gh' = IF status = "ok" THEN [gh EXCEPT !.pc = "ret", !.result = TRUE]
                     ELSE IF status = "422" THEN [gh EXCEPT !.pc = "createRefExists"]
                     ELSE GhFail
    /\ UNCHANGED GhOthers

GhUpdateRefAfterCreate == GhForceUpdate("createRefExists")

-----------------------------------------------------------------------------
(* LocalServerPublisher                                                    *)

LsCall(op, files) == [LsIdle EXCEPT !.pc = "validate", !.op = op, !.files = files]

LsOthers == <<settings, vault, publishedNotes, branch, ui, co, gh, reqs, issued, posts, second,
              external>>

\* where publishFile / deleteFile put a target: the notes or the assets directory
LsTarget(file) == [dir |-> IF file.isAsset THEN "assets" ELSE "notes", path |-> file.target]

\* validatePaths: false when the mount root cannot be reached, and then
\* publishFiles / deleteFiles return at once with nothing published
LsValidatePaths ==
    /\ ls.pc = "validate"
    /\ \E isValid \in BOOLEAN :
         ls' = IF ~isValid
               THEN [ls EXCEPT !.pc = "ret", !.success = FALSE, !.filesPublished = 0,
                               !.errors = <<"unreachable">>]
               ELSE IF ls.files = <<>> THEN [ls EXCEPT !.pc = "ret", !.success = TRUE]
               ELSE [ls EXCEPT !.pc = "copy", !.i = 1]
    /\ UNCHANGED <<mirror, faults, LsOthers>>

\* a loop that would stop at the first failed copy: what C27_LocalBatchCopy
\* must tell from LsAfterItem
LsStopAtError(l) ==
    IF l.i < Len(l.files) /\ l.errors = <<>> THEN [l EXCEPT !.i = l.i + 1]
    ELSE [l EXCEPT !.pc = "ret", !.success = (l.errors = <<>>)]

LsAfterItem(l) ==
    IF l.i < Len(l.files) THEN [l EXCEPT !.i = l.i + 1]
    ELSE [l EXCEPT !.pc = "ret", !.success = (l.errors = <<>>)]

\* one round of the loop of publishFiles: copy the item, count it or record its target
LsPublishFile ==
    /\ ls.pc = "copy"
    /\ ls.op = "publishFiles"
    /\ LET file == ls.files[ls.i]
       IN \E fault \in {"none"} \cup (IF CanFault THEN {"copy"} ELSE {}) :
            /\ faults' = faults + (IF fault = "none" THEN 0 ELSE 1)
            /\ mirror' = IF fault = "none" THEN mirror \cup {LsTarget(file)} ELSE mirror
            /\ ls' = IF fault = "none"
                     THEN LsAfterItem([ls EXCEPT !.filesPublished = ls.filesPublished + 1])
                     ELSE LsAfterItem([ls EXCEPT !.errors = Append(ls.errors, file.target)])
    /\ UNCHANGED LsOthers

\* one round of the loop of deleteFiles: a missing target counts as deleted
LsDeleteFile ==
    /\ ls.pc = "copy"
    /\ ls.op = "deleteFiles"
    /\ LET file == ls.files[ls.i]
       IN \E fault \in {"none"} \cup (IF CanFault /\ LsTarget(file) \in mirror THEN {"unlink"} ELSE {}) :
            /\ faults' = faults + (IF fault = "none" THEN 0 ELSE 1)
            /\ mirror' = IF fault = "none" THEN mirror \ {LsTarget(file)} ELSE mirror
            /\ ls' = IF fault = "none"
                     THEN LsAfterItem([ls EXCEPT !.filesPublished = ls.filesPublished + 1])
                     ELSE LsAfterItem([ls EXCEPT !.errors = Append(ls.errors, file.target)])
    /\ UNCHANGED LsOthers

-----------------------------------------------------------------------------
(* IntegratedPublisher                                                     *)

\* initialize(): which publishers and clients the coordinator holds
githubPublisher == settings.hasGitHub
localServerPublisher == settings.enableLocalServer /\ settings.hasLocalPath
webhookClient == settings.enableWebhook /\ settings.hasWebhookUrl /\ settings.hasWebhookToken

\* /!\[.*?\]\(([^)]+)\)/ anchored at i: <<index of the "]" before "(", end
\* of match>>, <<0, 0>> when it does not match there
mdLinkMatchAt(s, i) ==
    IF i + 1 <= Len(s) /\ s[i] = "!" /\ s[i+1] = "["
    THEN LET J == {j \in (i + 2)..(Len(s) - 1) :
                     /\ s[j] = "]" /\ s[j+1] = "("
                     /\ \A m \in (i + 2)..(j - 1) : s[m] # "\n"
                     /\ IndexFrom(s, ")", j + 2) > j + 2}
         IN IF J = {} THEN <<0, 0>>
            ELSE LET j == CHOOSE j \in J : \A m \in J : j <= m
                 IN <<j, IndexFrom(s, ")", j + 2)>>
    ELSE <<0, 0>>

RECURSIVE mdLinks(_, _)
mdLinks(s, i) ==
    IF i > Len(s) THEN <<>>
    ELSE LET m == mdLinkMatchAt(s, i)
         IN IF m[2] # 0
            THEN LET link == SubSeq(s, m[1] + 2, m[2] - 1)
                 IN (IF ~StartsWith(link, <<"h", "t", "t", "p", ":", "/", "/">>)
                        /\ ~StartsWith(link, <<"h", "t", "t", "p", "s", ":", "/", "/">>)
                     THEN <<link>> ELSE <<>>) \o mdLinks(s, m[2] + 1)
            ELSE mdLinks(s, i + 1)

\* [...new Set(images)]: each value once, at the place of its first occurrence
uniqueValues(xs) ==
    SelectSeq([k \in 1..Len(xs) |-> IF \A j \in 1..(k - 1) : xs[j] # xs[k] THEN Some(xs[k]) ELSE None],
              LAMBDA o : o # None)

coExtractImageLinks(content) ==
    LET all == uniqueValues(wikiLinks(content, 1) \o mdLinks(content, 1))
    IN [k \in 1..Len(all) |-> all[k][1]]

\* the note of a file and one item per image link that resolves
RECURSIVE coImageItems(_, _)
coImageItems(images, file) ==
    IF images = <<>> THEN <<>>
    ELSE LET imageFile == getFirstLinkpathDest(Head(images), file)
         IN (IF imageFile # None
             THEN <<[source |-> imageFile[1], target |-> Head(images), isAsset |-> TRUE]>>
             ELSE <<>>) \o coImageItems(Tail(images), file)

coFileItems(file) ==
    <<[source |-> file, target |-> file, isAsset |-> FALSE]>>
    \o coImageItems(coExtractImageLinks(vault[file]), file)

RECURSIVE coAllFiles(_)
coAllFiles(files) ==
    IF files = <<>> THEN <<>> ELSE coFileItems(Head(files)) \o coAllFiles(Tail(files))

\* Array.from(new Map(allFiles.map(f => [f.target, f])).values())
uniqueByTarget(items) ==
    LET first(k) == \A j \in 1..(k - 1) : items[j].target # items[k].target
        lastOf(k) == CHOOSE j \in 1..Len(items) :
                        /\ items[j].target = items[k].target
                        /\ \A m \in (j + 1)..Len(items) : items[m].target # items[k].target
        keep == SelectSeq([k \in 1..Len(items) |-> k], first)
    IN [n \in 1..Len(keep) |-> items[lastOf(keep[n])]]

TargetResult(success, filesPublished) == [success |-> success, filesPublished |-> filesPublished]

CoCall(op, files) ==
    [pc |-> "github", op |-> op, files |-> files, legs |-> <<>>,
     result |-> IF op = "publishFiles"
                THEN [EmptyResult EXCEPT !.github = Some(TargetResult(FALSE, 0)),
                                         !.localServer = Some(TargetResult(FALSE, 0))]
                ELSE EmptyResult]

CoOthers == <<settings, vault, publishedNotes, branch, mirror, ui, issued, faults, second,
              external>>

CoGithubSelected == githubPublisher /\ settings.publishTarget \in {"github", "both"}

CoGithubStart ==
    /\ co.pc = "github"
    /\ CoGithubSelected
    /\ co' = [co EXCEPT !.pc = "githubWait", !.legs = Append(co.legs, "github")]
    /\ gh' = GhCall(co.op, co.files)
    /\ reqs' = <<>>
    /\ UNCHANGED <<ls, posts, CoOthers>>

CoGithubSkip ==
    /\ co.pc = "github"
    /\ ~CoGithubSelected
    /\ co' = [co EXCEPT !.pc = "local"]
    /\ UNCHANGED <<gh, ls, reqs, posts, CoOthers>>

\* a coordinator that would give up after a failed remote leg: what
\* C15_RemoteThenLocal must tell from CoGithubReturn
CoGithubReturnGivesUp ==
    /\ co.pc = "githubWait"
    /\ gh.pc = "ret"
    /\ co' = [co EXCEPT !.pc = IF gh.result THEN "local" ELSE "final",
                        !.result.github =
                            Some(TargetResult(gh.result, IF gh.result THEN Len(co.files) ELSE 0))]
    /\ gh' = GhIdle
    /\ reqs' = <<>>
    /\ UNCHANGED <<ls, posts, CoOthers>>

\* the value the remote leg returned: publishFile records a failure in
\* errors, publishFiles does not
CoGithubReturn ==
    /\ co.pc = "githubWait"
    /\ gh.pc = "ret"
    /\ LET githubSuccess == gh.result
           n == IF githubSuccess THEN Len(co.files) ELSE 0
       IN co' = [co EXCEPT !.pc = "local",
                           !.result.github = Some(TargetResult(githubSuccess, n)),
                           !.result.errors =
                               IF co.op = "publishFile" /\ ~githubSuccess
                               THEN Append(co.result.errors, "github failed")
                               ELSE co.result.errors]
    /\ gh' = GhIdle
    /\ reqs' = <<>>
    /\ UNCHANGED <<ls, posts, CoOthers>>

CoLocalSelected == localServerPublisher /\ settings.enableLocalServer

\* collect the notes and their images, then hand them to the local mirror;
\* a note that cannot be read throws into the leg's catch
CoLocalStart ==
    /\ co.pc = "local"
    /\ CoLocalSelected
    /\ \E fault \in {"none"} \cup (IF CanFault THEN {"read"} ELSE {}) :
         /\ faults' = faults + (IF fault = "none" THEN 0 ELSE 1)
         /\ IF fault = "none"
            THEN /\ co' = [co EXCEPT !.pc = "localWait", !.legs = Append(co.legs, "local")]
                 /\ ls' = LsCall("publishFiles",
                                 IF co.op = "publishFile" THEN coFileItems(co.files[1])
                                 ELSE uniqueByTarget(coAllFiles(co.files)))
            ELSE /\ co' = [co EXCEPT !.pc = "webhook", !.legs = Append(co.legs, "local"),
                                     !.result.errors = Append(co.result.errors, "local threw")]
                 /\ ls' = ls
    /\ UNCHANGED <<settings, vault, publishedNotes, branch, mirror, ui, gh, reqs, issued, posts,
                   second, external>>

CoLocalSkip ==
    /\ co.pc = "local"
    /\ ~CoLocalSelected
    /\ co' = [co EXCEPT !.pc = "webhook"]
    /\ UNCHANGED <<gh, ls, reqs, posts, CoOthers>>

CoLocalReturn ==
    /\ co.pc = "localWait"
    /\ ls.pc = "ret"
    /\ co' = [co EXCEPT !.pc = "webhook",
                        !.result.localServer = Some(TargetResult(ls.success, ls.filesPublished)),
                        !.result.errors =
                            IF co.op = "publishFile" /\ ~ls.success
                            THEN Append(co.result.errors, "local failed")
                            ELSE co.result.errors]
    /\ ls' = LsIdle
    /\ UNCHANGED <<gh, reqs, posts, CoOthers>>

CoLocalSucceeded == co.result.localServer # None /\ co.result.localServer[1].success

\* a webhook that would not wait for the mirror: what
\* C13_WebhookOnlyAfterLocalSuccess must tell from CoWebhookSelected
CoWebhookConfigured == webhookClient /\ settings.enableWebhook

CoWebhookSelected == webhookClient /\ settings.enableWebhook /\ CoLocalSucceeded

\* WebhookClient.triggerDockerRestart: one POST; true on status 200 or 204,
\* false on any other status or error
CoWebhook ==
    /\ co.pc = "webhook"
    /\ CoWebhookSelected
    /\ \E fault \in {"none"} \cup (IF CanFault THEN {"status"} ELSE {}) :
         /\ faults' = faults + (IF fault = "none" THEN 0 ELSE 1)
         /\ co' = [co EXCEPT !.pc = "final", !.legs = Append(co.legs, "webhook"),
                             !.result.webhook = Some([success |-> fault = "none"])]
    /\ posts' = posts + 1
    /\ UNCHANGED <<settings, vault, publishedNotes, branch, mirror, ui, gh, ls, reqs, issued,
                   second, external>>

CoWebhookSkip ==
    /\ co.pc = "webhook"
    /\ ~CoWebhookSelected
    /\ co' = [co EXCEPT !.pc = "final"]
    /\ UNCHANGED <<gh, ls, reqs, posts, CoOthers>>

CoGithubSucceeded == co.result.github # None /\ co.result.github[1].success

\* a result that would not look at the errors: what C16_NothingPropagates
\* must tell from CoFinal
CoFinalAnyTarget ==
    /\ co.pc = "final"
    /\ co' = [co EXCEPT !.pc = "ret",
                        !.result.success = (CoGithubSucceeded \/ CoLocalSucceeded)]
    /\ UNCHANGED <<gh, ls, reqs, posts, CoOthers>>

\* result.success = (github?.success || localServer?.success) && errors.length === 0
CoFinal ==
    /\ co.pc = "final"
    /\ co' = [co EXCEPT !.pc = "ret",
                        !.result.success = (CoGithubSucceeded \/ CoLocalSucceeded)
                                           /\ co.result.errors = <<>>]
    /\ UNCHANGED <<gh, ls, reqs, posts, CoOthers>>

-----------------------------------------------------------------------------
(* Publication Center and the publish-current-file command                 *)

\* Date.now() of this session; the records loaded with the settings are older
Now == 1

\* the Publication Center opens its panel only when this holds
validateSettings ==
    LET hasGitHub == settings.hasGitHub
        hasLocalServer == settings.enableLocalServer /\ settings.hasLocalPath
    IN CASE settings.publishTarget = "github" -> hasGitHub
         [] settings.publishTarget = "server" -> hasLocalServer
         [] settings.publishTarget = "both" -> hasGitHub \/ hasLocalServer

UiOthers == <<settings, vault, branch, mirror, issued, posts, faults, second, external>>

\* getMarkdownFiles(): the live documents, in the order the vault lists them
AllFiles == SetToSeq(DOMAIN vault)

\* a listing of the live documents alone: what C18_ClassificationExact must
\* tell from analyzeNotes
analyzeLiveNotes ==
    [k \in 1..Len(AllFiles) |->
        [path |-> AllFiles[k], status |-> "unpublished",
         hash |-> Some(getFileHash(AllFiles[k])), lastPublished |-> None]]

\* analyzeNotes: one entry per live document, its status from the ledger
\* record of its path, then one entry per ledger path that is no live document
analyzeNotes ==
    LET live(file) ==
            LET fileHash == getFileHash(file)
            IN IF file \notin DOMAIN publishedNotes
               THEN [path |-> file, status |-> "unpublished", hash |-> Some(fileHash),
                     lastPublished |-> None]
               ELSE IF publishedNotes[file].hash # fileHash
               THEN [path |-> file, status |-> "changed", hash |-> Some(fileHash),
                     lastPublished |-> Some(publishedNotes[file].timestamp)]
               ELSE [path |-> file, status |-> "published", hash |-> Some(fileHash),
                     lastPublished |-> Some(publishedNotes[file].timestamp)]
        gone == SetToSeq({path \in DOMAIN publishedNotes : path \notin DOMAIN vault})
    IN [k \in 1..Len(AllFiles) |-> live(AllFiles[k])]
       \o [k \in 1..Len(gone) |->
              [path |-> gone[k], status |-> "deleted", hash |-> None,
               lastPublished |-> Some(publishedNotes[gone[k]].timestamp)]]

\* onOpen: the panel is built, and the notes classified, only with valid settings
OnOpen ==
    /\ ui.pc = "idle"
    /\ validateSettings
    /\ ui' = [ui EXCEPT !.pc = "open", !.notes = analyzeNotes]
    /\ UNCHANGED <<publishedNotes, co, gh, ls, reqs, UiOthers>>

\* publishSelected: the selection goes to publishInBackground, which calls
\* publishFile for one file and publishFiles for more
PublishSelected ==
    /\ ui.pc = "open"
    /\ \E selectedFiles \in Selections :
         /\ ui' = [ui EXCEPT !.pc = "publishing", !.op = "publishSelected",
                             !.files = selectedFiles, !.before = publishedNotes]
         /\ co' = CoCall(IF Len(selectedFiles) = 1 THEN "publishFile" ELSE "publishFiles",
                         selectedFiles)
    /\ UNCHANGED <<publishedNotes, gh, ls, reqs, UiOthers>>

RECURSIVE savePublishInfo(_, _)
savePublishInfo(notes, files) ==
    IF files = <<>> THEN notes
    ELSE savePublishInfo(
             [path \in (DOMAIN notes) \cup {Head(files)} |->
                 IF path = Head(files)
                 THEN [hash |-> getFileHash(path), timestamp |-> Now]
                 ELSE notes[path]],
             Tail(files))

\* publishInBackground after the coordinator returned: one file is recorded
\* whatever the result, several files are recorded when result.success
PublishInBackgroundDone ==
    /\ ui.pc = "publishing"
    /\ ui.op = "publishSelected"
    /\ co.pc = "ret"
    /\ publishedNotes' = IF Len(ui.files) = 1 \/ co.result.success
                         THEN savePublishInfo(publishedNotes, ui.files)
                         ELSE publishedNotes
    /\ ui' = [ui EXCEPT !.pc = "done"]
    /\ UNCHANGED <<co, gh, ls, reqs, UiOthers>>

\* the publish-current-file command: the active note goes to publishFile
PublishCurrentFile ==
    /\ ui.pc = "idle"
    /\ \E file \in Docs :
         /\ ui' = [ui EXCEPT !.pc = "publishing", !.op = "publishCurrentFile",
                             !.files = <<file>>, !.before = publishedNotes]
         /\ co' = CoCall("publishFile", <<file>>)
    /\ UNCHANGED <<publishedNotes, gh, ls, reqs, UiOthers>>

PublishCurrentFileDone ==
    /\ ui.pc = "publishing"
    /\ ui.op = "publishCurrentFile"
    /\ co.pc = "ret"
    /\ ui' = [ui EXCEPT !.pc = "done"]
    /\ UNCHANGED <<publishedNotes, co, gh, ls, reqs, UiOthers>>

\* unpublishSelected, confirmed by the user
UnpublishSelected ==
    /\ ui.pc = "open"
    /\ \E pathsToDelete \in Selections :
         ui' = [ui EXCEPT !.pc = "unpublishGithub", !.op = "unpublishSelected",
                          !.files = pathsToDelete, !.before = publishedNotes]
    /\ UNCHANGED <<publishedNotes, co, gh, ls, reqs, UiOthers>>

UnpublishGithubSelected == settings.publishTarget \in {"github", "both"}

UnpublishGithubStart ==
    /\ ui.pc = "unpublishGithub"
    /\ UnpublishGithubSelected
    /\ ui' = [ui EXCEPT !.pc = "unpublishGithubWait"]
    /\ gh' = GhCall("deleteFiles", ui.files)
    /\ reqs' = <<>>
    /\ UNCHANGED <<publishedNotes, co, ls, UiOthers>>

UnpublishGithubSkip ==
    /\ ui.pc = "unpublishGithub"
    /\ ~UnpublishGithubSelected
    /\ ui' = [ui EXCEPT !.pc = "unpublishLocal"]
    /\ UNCHANGED <<publishedNotes, co, gh, ls, reqs, UiOthers>>

UnpublishGithubReturn ==
    /\ ui.pc = "unpublishGithubWait"
    /\ gh.pc = "ret"
    /\ ui' = [ui EXCEPT !.pc = "unpublishLocal", !.githubSuccess = gh.result]
    /\ gh' = GhIdle
    /\ reqs' = <<>>
    /\ UNCHANGED <<publishedNotes, co, ls, UiOthers>>

UnpublishLocalSelected ==
    settings.publishTarget \in {"server", "both"} /\ settings.enableLocalServer

unpublishLocalItems(paths) ==
    [k \in 1..Len(paths) |-> [source |-> paths[k], target |-> paths[k], isAsset |-> FALSE]]

UnpublishLocalStart ==
    /\ ui.pc = "unpublishLocal"
    /\ UnpublishLocalSelected
    /\ ui' = [ui EXCEPT !.pc = "unpublishLocalWait"]
    /\ ls' = LsCall("deleteFiles", unpublishLocalItems(ui.files))
    /\ UNCHANGED <<publishedNotes, co, gh, reqs, UiOthers>>

UnpublishLocalSkip ==
    /\ ui.pc = "unpublishLocal"
    /\ ~UnpublishLocalSelected
    /\ ui' = [ui EXCEPT !.pc = "unpublishLedger"]
    /\ UNCHANGED <<publishedNotes, co, gh, ls, reqs, UiOthers>>

UnpublishLocalReturn ==
    /\ ui.pc = "unpublishLocalWait"
    /\ ls.pc = "ret"
    /\ ui' = [ui EXCEPT !.pc = "unpublishLedger", !.localServerSuccess = ls.success]
    /\ ls' = LsIdle
    /\ UNCHANGED <<publishedNotes, co, gh, reqs, UiOthers>>

pathsOf(files) == {files[k] : k \in 1..Len(files)}

\* a handler that would drop the records whatever the legs returned: what
\* C7_LedgerAfterUnpublish must tell from UnpublishLedger
UnpublishLedgerAlways ==
    /\ ui.pc = "unpublishLedger"
    /\ publishedNotes' = [path \in (DOMAIN publishedNotes) \ pathsOf(ui.files) |->
                             publishedNotes[path]]
    /\ ui' = [ui EXCEPT !.pc = "done"]
    /\ UNCHANGED <<co, gh, ls, reqs, UiOthers>>

\* the records are removed when either leg succeeded
UnpublishLedger ==
    /\ ui.pc = "unpublishLedger"
    /\ publishedNotes' = IF ui.githubSuccess \/ ui.localServerSuccess
                         THEN [path \in (DOMAIN publishedNotes) \ pathsOf(ui.files) |->
                                  publishedNotes[path]]
                         ELSE publishedNotes
    /\ ui' = [ui EXCEPT !.pc = "done"]
    /\ UNCHANGED <<co, gh, ls, reqs, UiOthers>>

-----------------------------------------------------------------------------

Next ==
    \/ OnOpen
    \/ PublishSelected \/ PublishInBackgroundDone
    \/ PublishCurrentFile \/ PublishCurrentFileDone
    \/ UnpublishSelected
    \/ UnpublishGithubStart \/ UnpublishGithubSkip \/ UnpublishGithubReturn
    \/ UnpublishLocalStart \/ UnpublishLocalSkip \/ UnpublishLocalReturn
    \/ UnpublishLedger
    \/ CoGithubStart \/ CoGithubSkip \/ CoGithubReturn
    \/ CoLocalStart \/ CoLocalSkip \/ CoLocalReturn
    \/ CoWebhook \/ CoWebhookSkip \/ CoFinal
    \/ GhGetRef \/ GhGetCommit \/ GhNoteBlob \/ GhImage \/ GhGetTree
    \/ GhCreateTree \/ GhCreateCommit \/ GhUpdateRef \/ GhCreateRef
    \/ GhUpdateRefAfterCreate
    \/ LsValidatePaths \/ LsPublishFile \/ LsDeleteFile

Spec == Init /\ [][Next]_vars

-----------------------------------------------------------------------------
(* Other writers of the branch: a second publish started from the UI while *)
(* one is in flight, and another client of the repository                  *)

\* three settings that between them take every branch of the handlers:
\* both targets with the webhook, the local mirror alone, the remote alone
CoreSettings ==
    {s \in SettingsSet :
        \/ /\ s.publishTarget = "both" /\ s.hasGitHub /\ s.enableLocalServer
           /\ s.enableWebhook /\ s.hasWebhookToken
        \/ /\ s.publishTarget = "server" /\ ~s.hasGitHub /\ s.enableLocalServer
           /\ ~s.enableWebhook /\ ~s.hasWebhookToken
        \/ /\ s.publishTarget = "github" /\ s.hasGitHub /\ ~s.enableLocalServer
           /\ ~s.enableWebhook /\ ~s.hasWebhookToken}

RaceInit ==
    /\ Init
    /\ settings \in CoreSettings
    /\ publishedNotes = <<>>

RaceOthers == <<settings, vault, publishedNotes, mirror, ui, co, gh, ls, reqs, issued, posts, faults>>

\* the active note of the second invocation
SecondFile == DocC

\* the publish-current-file command while a publish started from the UI is
\* in flight: neither the command nor the coordinator holds it back
PublishCurrentFileWhileBusy ==
    /\ ui.pc = "publishing"
    /\ CoGithubSelected
    /\ second.pc = "idle"
    /\ second' = [second EXCEPT !.pc = "getRef"]
    /\ UNCHANGED <<branch, external, RaceOthers>>

\* its remote leg reads the head of the branch ...
SecondGetRef ==
    /\ second.pc = "getRef"
    /\ second' = [second EXCEPT !.pc = "updateRef", !.head = branch]
    /\ UNCHANGED <<branch, external, RaceOthers>>

\* ... and moves the branch to its commit: a forced update on the head it
\* read, or on no head a reference creation that falls back to a forced update
SecondUpdateRef ==
    /\ second.pc = "updateRef"
    /\ LET base == IF second.head = None THEN {} ELSE second.head[1].tree
           note == FileBlob(getFilePath(SecondFile),
                            blobSha(transformImageLinks(vault[SecondFile])))
           kind == IF second.head = None THEN "Initial commit" ELSE "Publish"
       IN branch' = Some(Commit(createTree(base, <<note>>), second.head, Message(kind, 1, 0)))
    /\ second' = [second EXCEPT !.pc = "done"]
    /\ UNCHANGED <<external, RaceOthers>>

\* what another client pushes: one more file on top of the head it fetched
ExternalCommit(head) ==
    Commit(createTree(head.tree, <<FileBlob(<<"e">>, blobSha(<<"e">>))>>), <<head>>,
           Message("external", 0, 0))

\* a fast-forward push of another client, between the head read of the
\* remote call in flight and its reference update
ExternalPush ==
    /\ external = None
    /\ branch # NoRef
    /\ gh.pc \notin {"idle", "getRef", "ret"}
    /\ external' = Some(ExternalCommit(branch[1]))
    /\ branch' = external'
    /\ UNCHANGED <<second, RaceOthers>>

\* the commits reachable from a commit
RECURSIVE Ancestors(_)
Ancestors(commit) ==
    {commit} \cup UNION {Ancestors(commit.parents[k]) : k \in 1..Len(commit.parents)}

RaceNext ==
    \/ Next
    \/ PublishCurrentFileWhileBusy \/ SecondGetRef \/ SecondUpdateRef
    \/ ExternalPush

RaceSpec == RaceInit /\ [][RaceNext]_vars

-----------------------------------------------------------------------------
(* Path settings as a user may type them                                   *)

PathBases == { pSrcSite, <<"/", "/", "s">>, <<"s", "/", "/">> }
PathContents == { pNotes, <<"/">>, <<"/", "n", "/">> }

PathInit ==
    /\ settings \in {[s EXCEPT !.publicBasePath = b, !.blogContentPath = c] :
                        s \in CoreSettings, b \in PathBases, c \in PathContents}
    /\ vault = VaultInit
    /\ publishedNotes = <<>>
    /\ branch \in {NoRef, Some(OldCommit)}
    /\ mirror = {}
    /\ ui = UiIdle
    /\ co = CoIdle
    /\ gh = GhIdle
    /\ ls = LsIdle
    /\ reqs = <<>>
    /\ issued = {}
    /\ posts = 0
    /\ faults = 0
    /\ second = SecondIdle
    /\ external = None

PathSpec == PathInit /\ [][Next]_vars

-----------------------------------------------------------------------------
(* Note texts as a user may write them                                     *)

\* ![[p]]![x](http://c): both syntaxes, the second with an absolute URL
TextMixed ==
    <<"!", "[", "[", "p", "]", "]",
      "!", "[", "x", "]", "(", "h", "t", "t", "p", ":", "/", "/", "c", ")">>

\* ![[p]]![[p]]: one image referenced twice
TextTwice == <<"!", "[", "[", "p", "]", "]", "!", "[", "[", "p", "]", "]">>

\* ![x](/q)![[/p]]: every target is absolute already
TextAbsolute ==
    <<"!", "[", "x", "]", "(", "/", "q", ")", "!", "[", "[", "/", "p", "]", "]">>

\* ![[b]]: note b embedded in note a
TextEmbed == <<"!", "[", "[", "b", "]", "]">>

TextInputs == {TextMixed, TextTwice, TextAbsolute, TextEmbed}

TextInit ==
    /\ settings \in CoreSettings
    /\ vault \in {[VaultInit EXCEPT ![DocA] = text] : text \in TextInputs}
    /\ publishedNotes = <<>>
    /\ branch \in {NoRef, Some(OldCommit)}
    /\ mirror = {}
    /\ ui = UiIdle
    /\ co = CoIdle
    /\ gh = GhIdle
    /\ ls = LsIdle
    /\ reqs = <<>>
    /\ issued = {}
    /\ posts = 0
    /\ faults = 0
    /\ second = SecondIdle
    /\ external = None

TextSpec == TextInit /\ [][Next]_vars

-----------------------------------------------------------------------------
(* The user keeps writing while a publish is in flight                     *)

TextEdited == <<"y">>

\* one edit of a note of the publish in flight, saved to the vault between
\* two awaits of publishInBackground
EditDocument ==
    /\ ui.pc = "publishing"
    /\ ui.op = "publishSelected"
    /\ vault = VaultInit
    /\ \E k \in 1..Len(ui.files) : vault' = [vault EXCEPT ![ui.files[k]] = TextEdited]
    /\ UNCHANGED <<settings, publishedNotes, branch, mirror, ui, co, gh, ls, reqs, issued,
                   posts, faults, second, external>>

EditNext == Next \/ EditDocument

EditSpec == RaceInit /\ [][EditNext]_vars

-----------------------------------------------------------------------------
(* Properties. gh.before is the branch when the remote call started,       *)
(* ui.before the ledger when the handler started.                          *)

\* C1: when a publish started from the Publication Center did not succeed,
\* no Publication Record is created or changed: the ledger is as it was
\* before the call (single-document path and batch path alike)
C1_LedgerOnlyOnSuccess ==
    (ui.pc = "done" /\ ui.op = "publishSelected" /\ ~co.result.success)
        => publishedNotes = ui.before

\* C2: when a note blob upload, the tree creation or the commit creation
\* fails, the call returns failure, no create-reference or update-reference
\* request is issued, and the branch points where it pointed before the call
C2_BatchAtomicity ==
    LET failed == \E k \in 1..Len(reqs) :
                     /\ ~reqs[k].ok
                     /\ \/ reqs[k].op \in {"createTree", "createCommit"}
                        \/ reqs[k].op = "createBlob" /\ reqs[k].arg.kind = "note"
    IN failed => /\ gh.pc = "ret"
                 /\ ~gh.result
                 /\ \A k \in 1..Len(reqs) : reqs[k].op \notin {"createRef", "updateRef"}
                 /\ branch = gh.before

\* a batch publish onto an existing branch whose commit creation failed
C2_Witness ==
    /\ gh.pc = "ret"
    /\ gh.op = "publishFiles"
    /\ gh.before # NoRef
    /\ \E k \in 1..Len(reqs) : reqs[k].op = "createCommit" /\ ~reqs[k].ok

\* C3: Publish takes the bootstrap path only when the reference lookup
\* reports not-found; any other failure of the reference lookup or of the
\* commit lookup aborts Publish with failure, creates no commit and leaves
\* the branch unchanged
C3_BootstrapOnlyForMissingRef ==
    LET notFound(k) == reqs[k].op = "getRef" /\ reqs[k].arg.status = "404"
        otherLookupFailure ==
            \E k \in 1..Len(reqs) :
                /\ reqs[k].op \in {"getRef", "getCommit"}
                /\ ~reqs[k].ok
                /\ ~notFound(k)
    IN gh.op \in GhPublishOps =>
          /\ gh.bootstrap => \E k \in 1..Len(reqs) : notFound(k)
          /\ otherLookupFailure =>
                /\ gh.pc = "ret"
                /\ ~gh.result
                /\ \A k \in 1..Len(reqs) : reqs[k].op # "createCommit"
                /\ branch = gh.before

\* C4: when the branch exists and Publish succeeds, the new commit's only
\* parent is the commit the reference pointed to, the tree request names
\* that commit's tree as its base, and the new tree holds every base entry
\* at a path this batch does not write, unchanged, and an entry at the
\* published path of each document
C4_CarryForward ==
    (gh.pc = "ret" /\ gh.result /\ gh.op \in GhPublishOps /\ gh.before # NoRef) =>
        LET base == gh.before[1]
            new == branch[1]
            written == {GhAllBlobs[k].path : k \in 1..Len(GhAllBlobs)}
        IN /\ new.parents = <<base>>
           /\ \E k \in 1..Len(reqs) :
                 /\ reqs[k].op = "createTree"
                 /\ reqs[k].arg.base_tree = Some(base.tree)
           /\ \A e \in base.tree : e.path \notin written => e \in new.tree
           /\ \A k \in 1..Len(gh.files) :
                 \E e \in new.tree : e.path = getFilePath(gh.files[k])

\* C5: with no branch reference, a successful Publish issues one tree
\* creation with no base tree, one commit creation with no parent, and a
\* create-reference request (no update-reference request) naming that
\* commit; one document with one resolvable image takes 2 blob uploads
C5_Bootstrap ==
    (gh.pc = "ret" /\ gh.result /\ gh.op \in GhPublishOps /\ gh.before = NoRef) =>
        LET at(op) == {k \in 1..Len(reqs) : reqs[k].op = op}
            links == extractImageLinks(vault[gh.files[1]])
            oneImage == /\ Len(gh.files) = 1
                        /\ Len(links) = 1
                        /\ getFirstLinkpathDest(links[1], gh.files[1]) # None
        IN /\ Cardinality(at("createTree")) = 1
           /\ \A k \in at("createTree") : reqs[k].ok /\ reqs[k].arg.base_tree = None
           /\ Cardinality(at("createCommit")) = 1
           /\ \A k \in at("createCommit") : reqs[k].ok /\ reqs[k].arg.parents = <<>>
           /\ at("updateRef") = {}
           /\ Cardinality(at("createRef")) = 1
           /\ \A k \in at("createRef") :
                 /\ reqs[k].ok
                 /\ reqs[k].arg.sha = gh.newCommit
                 /\ ~reqs[k].arg.force
           /\ branch = gh.newCommit
           /\ branch[1].parents = <<>>
           /\ oneImage =>
                 /\ Cardinality(at("createBlob")) <= 2
                 /\ (Len(gh.imageBlobs) = 1 \/ faults = 0) =>
                        /\ Cardinality(at("createBlob")) = 2
                        /\ \A k \in at("createBlob") : reqs[k].ok

\* the first publish of DocA, whose one image link resolves, onto a remote
\* without the branch: the reference was created and the image uploaded
C5_Witness ==
    /\ gh.pc = "ret"
    /\ gh.result
    /\ gh.op = "publishFile"
    /\ gh.files = <<DocA>>
    /\ gh.before = NoRef
    /\ branch # NoRef
    /\ Len(gh.imageBlobs) = 1
    /\ \E k \in 1..Len(reqs) : reqs[k].op = "createRef" /\ reqs[k].ok

\* C6: after a successful Unpublish the new tree has no entry at a target's
\* published path, and every other entry of the previous tree is still
\* there with the same path, mode and blob hash, whatever its kind
C6_UnpublishCompleteness ==
    (gh.pc = "ret" /\ gh.result /\ gh.op = "deleteFiles") =>
        LET prev == gh.before[1].tree
            new == branch[1].tree
            targets == {getFilePath(gh.files[k]) : k \in 1..Len(gh.files)}
        IN /\ \A e \in new : e.path \notin targets
           /\ \A e \in prev :
                 e.path \notin targets =>
                    \E n \in new : n.path = e.path /\ n.mode = e.mode /\ n.sha = e.sha

\* C7 as the specification states it: when the remote deletion leg was
\* attempted and failed, the records of the paths are still in the ledger,
\* so a path without a record has no entry at its published path in the
\* remote tree
C7_RecordKeptWhenRemoteFailed ==
    (ui.pc = "done" /\ ui.op = "unpublishSelected") =>
        /\ (UnpublishGithubSelected /\ ~ui.githubSuccess) =>
              \A path \in pathsOf(ui.files) \cap DOMAIN ui.before :
                  path \in DOMAIN publishedNotes
        /\ \A path \in pathsOf(ui.files) :
              (path \notin DOMAIN publishedNotes /\ branch # NoRef) =>
                  \A e \in branch[1].tree : e.path # getFilePath(path)

\* C7: Unpublish removes the records of the selected paths exactly when a
\* deletion leg it attempted (remote or local mirror) reported success; when
\* every attempted leg failed the ledger is as before; the records of other
\* paths never change
C7_LedgerAfterUnpublish ==
    (ui.pc = "done" /\ ui.op = "unpublishSelected") =>
        LET anySucceeded == \/ UnpublishGithubSelected /\ ui.githubSuccess
                            \/ UnpublishLocalSelected /\ ui.localServerSuccess
            kept == IF anySucceeded THEN (DOMAIN ui.before) \ pathsOf(ui.files)
                    ELSE DOMAIN ui.before
        IN publishedNotes = [path \in kept |-> ui.before[path]]

\* the remote leg failed, the mirror leg succeeded, and the record of DocA is gone
C7_Witness ==
    /\ ui.pc = "done"
    /\ ui.op = "unpublishSelected"
    /\ UnpublishGithubSelected
    /\ ~ui.githubSuccess
    /\ ui.localServerSuccess
    /\ DocA \in DOMAIN ui.before
    /\ DocA \in pathsOf(ui.files)
    /\ DocA \notin DOMAIN publishedNotes

\* C8: the coordinator's success flag is true exactly when a configured
\* target succeeded and the error list is empty, and every attempted target
\* that failed put an entry in that list, so success is false whenever an
\* attempted target failed
C8_CoordinatorSuccess ==
    co.pc = "ret" =>
        LET githubFailed == CoGithubSelected /\ ~CoGithubSucceeded
            localFailed == CoLocalSelected /\ ~CoLocalSucceeded
        IN /\ co.result.success =
                 ((CoGithubSucceeded \/ CoLocalSucceeded) /\ co.result.errors = <<>>)
           /\ (githubFailed \/ localFailed) => co.result.errors # <<>>
           /\ (githubFailed \/ localFailed) => ~co.result.success

\* C9: after a successful Publish, for every image link of a document that
\* resolves to an attachment, the published note text holds the URL made of
\* "/" and the published path of the tree entry recorded for that attachment
C9_ImageUrlIsEntryPath ==
    (gh.pc = "ret" /\ gh.result /\ gh.op \in GhPublishOps) =>
        \A k \in 1..Len(gh.files) :
            LET file == gh.files[k]
                links == extractImageLinks(vault[file])
                text == gh.noteBlobs[k].sha.data
                holds(url) == \E i \in 1..Len(text) :
                                 /\ i + Len(url) - 1 <= Len(text)
                                 /\ SubSeq(text, i, i + Len(url) - 1) = url
            IN \A j \in 1..Len(links) :
                  LET imageFile == getFirstLinkpathDest(links[j], file)
                  IN imageFile # None =>
                        \A e \in branch[1].tree :
                            e.sha = blobSha(readBinary(imageFile[1])) =>
                                holds(<<"/">> \o e.path)

\* C10: when a publish call reports that the mount root cannot be reached,
\* no remote blob, tree, commit or reference request and no local copy has
\* been made in that call
C10_ConfigurationErrorsFirst ==
    (co.pc = "localWait" /\ ls.pc = "ret" /\ ls.errors = <<"unreachable">>) =>
        /\ issued \cap {"createBlob", "createTree", "createCommit", "createRef", "updateRef"} = {}
        /\ mirror = {}

\* C11: at no time are two publish invocations started from the UI in
\* flight at once against the remote branch
C11_PublishesSerialized ==
    ~ /\ ui.pc = "publishing"
      /\ gh.pc \notin {"idle", "ret"}
      /\ second.pc \in {"getRef", "updateRef"}

\* C12: when another writer, and no second publish of this plugin, moved
\* the branch between the head read and the reference update of a Publish
\* or Unpublish, an operation that reports success has left the branch at
\* its new commit, whose parent is the stale head, and the other writer's
\* commit is not reachable from the branch
C12_LastWriterWins ==
    (gh.pc = "ret" /\ gh.result /\ external # None /\ second.pc = "idle") =>
        /\ branch = gh.newCommit
        /\ branch[1].parents = gh.latestCommitSha
        /\ gh.latestCommitSha # None
        /\ external[1] \notin Ancestors(branch[1])

\* C13: a webhook POST is issued only after the local mirror leg of the
\* same call returned success, and at most once
C13_WebhookOnlyAfterLocalSuccess ==
    LET webhooks == {k \in 1..Len(co.legs) : co.legs[k] = "webhook"}
    IN /\ posts = Cardinality(webhooks)
       /\ posts <= 1
       /\ \A k \in webhooks :
             /\ \E j \in 1..(k - 1) : co.legs[j] = "local"
             /\ localServerPublisher
             /\ CoLocalSucceeded

\* the remote leg failed, the mirror leg succeeded, the webhook was posted
C13_Witness ==
    /\ posts = 1
    /\ CoGithubSelected
    /\ ~CoGithubSucceeded
    /\ CoLocalSucceeded
    /\ co.pc = "ret"

\* C14: when the webhook is enabled with a URL and the local mirror leg
\* succeeded, the POST has been issued by the time the publish call
\* returns, with or without a bearer token
C14_WebhookWithoutToken ==
    (co.pc = "ret" /\ settings.enableWebhook /\ settings.hasWebhookUrl /\ CoLocalSucceeded)
        => posts >= 1

\* C15: with both targets selected the remote leg is entered first and the
\* local mirror leg afterwards, once the remote leg has returned, whatever
\* the remote leg returned
C15_RemoteThenLocal ==
    (CoGithubSelected /\ CoLocalSelected) =>
        /\ \A k \in 1..Len(co.legs) :
              co.legs[k] = "local" => (k = 2 /\ co.legs[1] = "github" /\ gh.pc = "idle")
        /\ co.pc \in {"webhook", "final", "ret"} =>
              (Len(co.legs) >= 2 /\ co.legs[1] = "github" /\ co.legs[2] = "local")

\* the remote leg returned failure and the mirror leg still ran and copied
C15_Witness ==
    /\ co.pc = "ret"
    /\ CoGithubSelected
    /\ CoLocalSelected
    /\ ~CoGithubSucceeded
    /\ Len(co.legs) >= 2
    /\ co.legs[2] = "local"
    /\ CoLocalSucceeded
    /\ mirror # {}

\* C16: a coordinator call in flight is never stuck (a step of the call or
\* of the leg it awaits is enabled, so that the call goes on to return a
\* result), and the result of a call in which a leg threw has success =
\* false. The steps that read a document are enabled whenever the call is
\* at them: the rest of their definition only assigns.
C16_NothingPropagates ==
    /\ co.pc \notin {"idle", "ret"} =>
          \/ co.pc = "local" /\ CoLocalSelected
          \/ gh.pc \in {"noteBlob", "image", "getTree"}
          \/ ENABLED (\/ CoGithubStart \/ CoGithubSkip \/ CoGithubReturn
                      \/ CoLocalSkip \/ CoLocalReturn
                      \/ CoWebhook \/ CoWebhookSkip \/ CoFinal
                      \/ GhGetRef \/ GhGetCommit \/ GhCreateTree \/ GhCreateCommit
                      \/ GhUpdateRef \/ GhCreateRef \/ GhUpdateRefAfterCreate
                      \/ LsValidatePaths \/ LsPublishFile)
    /\ co.pc = "ret" =>
          /\ co.result.success \in BOOLEAN
          /\ (\E k \in 1..Len(co.result.errors) : co.result.errors[k] = "local threw")
                => ~co.result.success

\* the remote leg succeeded, the mirror leg threw, and the call returned
C16_Witness ==
    /\ co.pc = "ret"
    /\ CoGithubSucceeded
    /\ \E k \in 1..Len(co.result.errors) : co.result.errors[k] = "local threw"

\* C17: in a batch Publish (normal and bootstrap path) the tree request
\* holds exactly one entry at the published path of every uploaded
\* attachment, with the blob hash of the last upload for that path
C17_AttachmentDeduplication ==
    (gh.op = "publishFiles" \/ gh.bootstrap) =>
        \A t \in {k \in 1..Len(reqs) : reqs[k].op = "createTree"} :
            LET tree == reqs[t].arg.tree
                uploads == {k \in 1..(t - 1) : /\ reqs[k].op = "createBlob"
                                               /\ reqs[k].ok
                                               /\ reqs[k].arg.kind = "image"}
            IN \A u \in uploads :
                  LET path == reqs[u].arg.path
                      last == CHOOSE k \in uploads :
                                 /\ reqs[k].arg.path = path
                                 /\ \A m \in uploads : reqs[m].arg.path = path => m <= k
                      at == {j \in 1..Len(tree) : tree[j].path = path}
                  IN /\ Cardinality(at) = 1
                     /\ \A j \in at : tree[j].sha = blobSha(reqs[last].arg.content)

\* a batch of two documents whose images resolve to one attachment: two
\* uploads for one path, then the tree request
C17_Witness ==
    /\ gh.op = "publishFiles"
    /\ Len(gh.files) = 2
    /\ \E t \in 1..Len(reqs) : reqs[t].op = "createTree"
    /\ \E j, k \in 1..Len(reqs) :
          /\ j < k
          /\ reqs[j].op = "createBlob" /\ reqs[j].ok /\ reqs[j].arg.kind = "image"
          /\ reqs[k].op = "createBlob" /\ reqs[k].ok /\ reqs[k].arg.kind = "image"
          /\ reqs[j].arg.path = reqs[k].arg.path

\* C18: the classification holds exactly one entry per live document
\* (unpublished without a ledger record, changed when the recorded
\* fingerprint differs from the current one, up-to-date when it is equal),
\* exactly one deleted entry per ledger path that is no live document, and
\* no other entry
C18_ClassificationExact ==
    ui.pc = "open" =>
        LET notes == ui.notes
            at(path) == {k \in 1..Len(notes) : notes[k].path = path}
            gone == (DOMAIN publishedNotes) \ (DOMAIN vault)
        IN /\ \A file \in DOMAIN vault :
                 /\ Cardinality(at(file)) = 1
                 /\ \A k \in at(file) :
                       notes[k].status =
                          IF file \notin DOMAIN publishedNotes THEN "unpublished"
                          ELSE IF publishedNotes[file].hash # hashOf(vault[file])
                               THEN "changed" ELSE "published"
           /\ \A path \in gone :
                 /\ Cardinality(at(path)) = 1
                 /\ \A k \in at(path) : notes[k].status = "deleted"
           /\ Len(notes) = Cardinality(DOMAIN vault) + Cardinality(gone)

\* a panel that lists an up-to-date, a changed, an unpublished and a deleted note
C18_Witness ==
    /\ ui.pc = "open"
    /\ \A status \in {"published", "changed", "unpublished", "deleted"} :
          \E k \in 1..Len(ui.notes) : ui.notes[k].status = status

\* C19: after a successful publish of a document whose text has not
\* changed since, the classification gives that document the status
\* up-to-date
C19_UpToDateAfterPublish ==
    (ui.pc = "done" /\ ui.op \in {"publishSelected", "publishCurrentFile"}
        /\ co.result.success) =>
        \A j \in 1..Len(ui.files) :
            \E k \in 1..Len(analyzeNotes) :
                /\ analyzeNotes[k].path = ui.files[j]
                /\ analyzeNotes[k].status = "published"

\* C20: every published path the resolver builds has no leading separator,
\* no trailing separator and no empty segment
C20_ResolvedPathClean ==
    LET clean(path) ==
            /\ path # <<>>
            /\ Head(path) # "/"
            /\ Last(path) # "/"
            /\ \A k \in 1..(Len(path) - 1) : ~(path[k] = "/" /\ path[k + 1] = "/")
    IN /\ \A k \in 1..Len(gh.noteBlobs) : clean(gh.noteBlobs[k].path)
       /\ \A k \in 1..Len(gh.imageBlobs) : clean(gh.imageBlobs[k].path)

\* C21: the links the remote publisher extracts from a document hold every
\* target once, hold no scheme-prefixed URL, and are the targets the
\* coordinator's extractor returns for the same text
C21_ExtractionDeduplicatedNoUrl ==
    (gh.pc = "image" /\ gh.op \in GhPublishOps) =>
        LET content == vault[gh.files[gh.i]]
            links == extractImageLinks(content)
            coLinks == coExtractImageLinks(content)
            absoluteUrl(link) ==
                \/ StartsWith(link, <<"h", "t", "t", "p", ":", "/", "/">>)
                \/ StartsWith(link, <<"h", "t", "t", "p", "s", ":", "/", "/">>)
        IN /\ \A j, k \in 1..Len(links) : links[j] = links[k] => j = k
           /\ \A k \in 1..Len(links) : ~absoluteUrl(links[k])
           /\ {links[k] : k \in 1..Len(links)} = {coLinks[k] : k \in 1..Len(coLinks)}

\* C22: a note whose image references all have an absolute target (a
\* scheme-prefixed URL or a leading "/") is uploaded byte-identical, and
\* rewriting the uploaded text again changes nothing
C22_RewriteKeepsAbsolute ==
    \A k \in 1..Len(gh.noteBlobs) :
        LET content == vault[gh.files[k]]
            uploaded == gh.noteBlobs[k].sha.data
            links == extractImageLinks(content)
            absolute(link) ==
                \/ StartsWith(link, <<"/">>)
                \/ StartsWith(link, <<"h", "t", "t", "p", ":", "/", "/">>)
                \/ StartsWith(link, <<"h", "t", "t", "p", "s", ":", "/", "/">>)
        IN /\ (\A j \in 1..Len(links) : absolute(links[j])) => uploaded = content
           /\ transformImageLinks(uploaded) = uploaded

\* C23: no tree-creation request of the remote protocol holds two entries
\* with the same published path
C23_TreePathsUnique ==
    \A t \in 1..Len(reqs) :
        reqs[t].op = "createTree" =>
            LET tree == reqs[t].arg.tree
            IN \A j, k \in 1..Len(tree) : tree[j].path = tree[k].path => j = k

\* C24: a step of the attachment pass (an unresolved reference, a failed
\* binary read, a failed upload, or a successful upload) never ends the
\* publish and never touches the note blobs: it goes on to the next
\* reference, the next document or the tree; and every attachment entry of
\* a publish's tree request comes from a successful upload for its path, so
\* a skipped image has none
C24_AttachmentErrorsNonFatal ==
    /\ [][gh.pc = "image" =>
            /\ gh'.pc \in {"image", "noteBlob", "createTree"}
            /\ gh'.noteBlobs = gh.noteBlobs
            /\ gh'.pc = "image" => (gh'.links = Tail(gh.links) /\ gh'.i = gh.i)
            /\ gh'.pc = "noteBlob" => (Len(gh.links) = 1 /\ gh'.i = gh.i + 1)
            /\ gh'.pc = "createTree" => (Len(gh.links) = 1 /\ gh.i = Len(gh.files))]_vars
    /\ [](\A t \in 1..Len(reqs) :
            (reqs[t].op = "createTree" /\ gh.op \in GhPublishOps) =>
                LET tree == reqs[t].arg.tree
                    notePaths == {gh.noteBlobs[k].path : k \in 1..Len(gh.noteBlobs)}
                IN \A j \in 1..Len(tree) :
                      tree[j].path \notin notePaths =>
                          \E u \in 1..(t - 1) :
                              /\ reqs[u].op = "createBlob"
                              /\ reqs[u].ok
                              /\ reqs[u].arg.kind = "image"
                              /\ reqs[u].arg.path = tree[j].path
                              /\ blobSha(reqs[u].arg.content) = tree[j].sha)

\* a batch whose first attachment upload failed and whose second one
\* succeeded, published with the branch at the new commit
C24_Witness ==
    /\ gh.pc = "ret"
    /\ gh.result
    /\ gh.op = "publishFiles"
    /\ branch = gh.newCommit
    /\ \E j, k \in 1..Len(reqs) :
          /\ j < k
          /\ reqs[j].op = "createBlob" /\ reqs[j].arg.kind = "image" /\ ~reqs[j].ok
          /\ reqs[k].op = "createBlob" /\ reqs[k].arg.kind = "image" /\ reqs[k].ok
    /\ \E t \in 1..Len(reqs) : reqs[t].op = "createTree" /\ reqs[t].ok

\* C25: when a bootstrap Publish has returned, a create-reference request
\* that failed with status 422 (the reference exists already) is followed
\* by exactly one forced update-reference request to the same commit, the
\* last request of the call, and Publish reports what that update
\* reported; a create-reference request that failed otherwise is the last
\* request of the call and Publish reports failure
C25_RefCreateFallback ==
    gh.pc = "ret" =>
        \A k \in 1..Len(reqs) :
            reqs[k].op = "createRef" =>
                CASE reqs[k].arg.status = "422" ->
                        /\ Len(reqs) = k + 1
                        /\ reqs[k + 1].op = "updateRef"
                        /\ reqs[k + 1].arg.force
                        /\ reqs[k + 1].arg.sha = reqs[k].arg.sha
                        /\ gh.result = reqs[k + 1].ok
                        /\ gh.result => branch = reqs[k].arg.sha
                  [] reqs[k].arg.status = "ok" -> Len(reqs) = k /\ gh.result
                  [] OTHER -> Len(reqs) = k /\ ~gh.result

\* the creation answered 422, the forced update succeeded, Publish succeeded
C25_Witness ==
    /\ gh.pc = "ret"
    /\ gh.result
    /\ gh.bootstrap
    /\ \E k \in 1..(Len(reqs) - 1) :
          /\ reqs[k].op = "createRef" /\ reqs[k].arg.status = "422"
          /\ reqs[k + 1].op = "updateRef" /\ reqs[k + 1].ok
    /\ branch = gh.newCommit

\* C26: in the request log of a Publish or Unpublish call the requests
\* follow the order lookups, blob uploads, tree, commit, reference; the
\* tree request comes after the blob of every document of the batch; the
\* commit request directly follows the tree request that returned; the
\* first reference request directly follows the commit request that
\* returned; and a reference request that moved the branch is the last
\* request of the call
C26_StrictSequencing ==
    LET rank(op) == CASE op = "getRef" -> 1 [] op = "getCommit" -> 2 [] op = "getTree" -> 3
                      [] op = "createBlob" -> 3 [] op = "createTree" -> 4
                      [] op = "createCommit" -> 5 [] op = "createRef" -> 6
                      [] op = "updateRef" -> 7
        at(op) == {k \in 1..Len(reqs) : reqs[k].op = op}
        refs == at("createRef") \cup at("updateRef")
    IN /\ \A j, k \in 1..Len(reqs) : j < k => rank(reqs[j].op) <= rank(reqs[k].op)
       /\ Cardinality(at("createTree")) <= 1
       /\ Cardinality(at("createCommit")) <= 1
       /\ \A t \in at("createTree") :
             gh.op \in GhPublishOps =>
                 Cardinality({k \in 1..(t - 1) : /\ reqs[k].op = "createBlob" /\ reqs[k].ok
                                                 /\ reqs[k].arg.kind = "note"}) = Len(gh.files)
       /\ \A k \in at("createCommit") : reqs[k - 1].op = "createTree" /\ reqs[k - 1].ok
       /\ \A k \in refs :
             /\ \/ reqs[k - 1].op = "createCommit" /\ reqs[k - 1].ok
                \/ reqs[k - 1].op = "createRef" /\ ~reqs[k - 1].ok
             /\ reqs[k].ok => k = Len(reqs)

\* a batch of two documents published onto an existing branch: three blob
\* uploads, the tree, the commit and the reference update, in this order
C26_Witness ==
    /\ gh.pc = "ret"
    /\ gh.result
    /\ gh.op = "publishFiles"
    /\ Len(gh.files) = 2
    /\ Len(reqs) >= 7
    /\ reqs[Len(reqs)].op = "updateRef"
    /\ reqs[Len(reqs) - 1].op = "createCommit"
    /\ reqs[Len(reqs) - 2].op = "createTree"
    /\ reqs[Len(reqs) - 3].op = "createBlob"

\* C27: when publishFiles of the local mirror has returned: if validation
\* failed (no item was reached) it reports failure, zero files published
\* and the mirror holds no copy; otherwise every item was attempted, the
\* succeeded count plus the number of failed targets is the number of
\* items, every item is copied or listed as failed, and success is true
\* exactly when no item failed
C27_LocalBatchCopy ==
    (ls.pc = "ret" /\ ls.op = "publishFiles") =>
        IF ls.i = 0 /\ ~ls.success
        THEN /\ ls.filesPublished = 0
             /\ mirror = {}
        ELSE /\ ls.i = Len(ls.files)
             /\ ls.filesPublished + Len(ls.errors) = Len(ls.files)
             /\ ls.success = (Len(ls.errors) = 0)
             /\ ls.filesPublished = Cardinality(mirror)
             /\ \A k \in 1..Len(ls.files) :
                   \/ LsTarget(ls.files[k]) \in mirror
                   \/ \E e \in 1..Len(ls.errors) : ls.errors[e] = ls.files[k].target

\* the copy of the first item failed and the second item was still copied
C27_Witness ==
    /\ ls.pc = "ret"
    /\ ls.op = "publishFiles"
    /\ Len(ls.files) >= 2
    /\ ls.i = Len(ls.files)
    /\ Len(ls.errors) = 1
    /\ ls.errors[1] = ls.files[1].target
    /\ LsTarget(ls.files[2]) \in mirror
    /\ ~ls.success

\* C28: a publish attempts a target only if publishTarget selects it: with
\* publishTarget = "github" a publish hands nothing to the local mirror and
\* the mirror receives no copy; with publishTarget = "server" a publish
\* starts no call of the remote API and no request is sent
C28_PublishHonoursTarget ==
    co.op \in {"publishFile", "publishFiles"} =>
        /\ settings.publishTarget = "github" =>
              /\ mirror = {}
              /\ ls.pc = "idle"
              /\ \A k \in 1..Len(co.legs) : co.legs[k] # "local"
        /\ settings.publishTarget = "server" =>
              /\ issued = {}
              /\ gh.pc = "idle"
              /\ \A k \in 1..Len(co.legs) : co.legs[k] # "github"

\* C29: when a publish from the Publication Center has uploaded its notes
\* and written their records, the fingerprint stored for each note is the
\* fingerprint of the text whose upload the branch now holds, also when the
\* note was edited while the publish was in flight
C29_LedgerRecordsUploaded ==
    (/\ ui.pc = "done"
     /\ ui.op = "publishSelected"
     /\ co.result.github # None
     /\ co.result.github[1].success
     /\ branch # NoRef
     /\ (Len(ui.files) = 1 \/ co.result.success)) =>
        \A k \in 1..Len(ui.files) :
            LET file == ui.files[k]
            IN file \in DOMAIN publishedNotes =>
                 \A text \in {VaultInit[file], TextEdited} :
                     (\E e \in branch[1].tree :
                         /\ e.path = getFilePath(file)
                         /\ e.sha = blobSha(transformImageLinks(text)))
                       => publishedNotes[file].hash = hashOf(text)

\* C30: in a batch publish to the local mirror, every destination collected
\* for the batch (the directory chosen by isAsset and the relative target
\* path) is the destination of an item handed to the mirror's copy loop:
\* deduplication drops only items whose destination a kept item has
C30_DedupKeepsDestinations ==
    (co.op = "publishFiles" /\ co.pc = "localWait" /\ ls.op = "publishFiles") =>
        LET allFiles == coAllFiles(co.files)
        IN \A k \in 1..Len(allFiles) :
               \E j \in 1..Len(ls.files) : LsTarget(ls.files[j]) = LsTarget(allFiles[k])

====
